---- MODULE Spec2Model ----
(***************************************************************************)
(* A model of heroku_env_vars.py: one run of get_all_vars_into_matrix,     *)
(* which reads the local environment, asks CircleCI for the project's      *)
(* variables, asks Heroku for the config vars of every target app, and     *)
(* merges the tables with pandas (concat, fillna, groupby/apply).          *)
(*                                                                         *)
(* A Python dict is a sequence of <<key, value>> pairs with distinct keys  *)
(* (dicts keep insertion order).  A DataFrame is a record of its index     *)
(* (row labels, in order), its columns (in order) and its cells.           *)
(***************************************************************************)
EXTENDS Integers, Sequences, FiniteSets, TLC

VARIABLES
    pc,                  \* position in get_all_vars_into_matrix
    REQUIRED_ENV_VARS,   \* the module's list of required names
    environ,             \* os.environ restricted to the required names
    HEROKU_API_TOKEN,    \* os.environ.get("HEROKU_API_KEY"), read at import
    heroku_app_targets,  \* the argument of get_all_vars_into_matrix
    all_dataframes,      \* the list the tables are appended to
    app_i,               \* position of the for loop in heroku_app_targets
    calls,               \* history: the source steps performed, in order
    circleci_response,   \* history: what CircleCI answered
    heroku_responses,    \* history: what Heroku answered, one per request
    log,                 \* logging.error / print diagnostics, in order
    exception,           \* the exception that left get_all_vars_into_matrix
    df_final,            \* line 172: concat(...).fillna("not_set")
    returned             \* line 173: the value returned

vars == <<pc, REQUIRED_ENV_VARS, environ, HEROKU_API_TOKEN, heroku_app_targets,
          all_dataframes, app_i, calls, circleci_response, heroku_responses,
          log, exception, df_final, returned>>

---------------------------------------------------------------------------
(* Bounds and input universes *)

MaxApps == 2      \* longest heroku_app_targets
MaxItems == 1     \* longest CircleCI items list

\* Python compares str by code point: digits < upper case < lower case.
Collation == <<"A", "B", "C", "Yes", "not_set">>

None == "None"    \* Python None
NaN == "NaN"      \* the missing-cell value pandas aligns with
HEROKU_APPS == <<"urban-robot-dev", "urban-robot-staging", "urban-robot">>

Range(s) == {s[i] : i \in DOMAIN s}

---------------------------------------------------------------------------
(* dict helpers *)

Keys(d) == [i \in DOMAIN d |-> d[i][1]]
HasKey(d, k) == \E i \in DOMAIN d : d[i][1] = k
Get(d, k) == d[CHOOSE i \in DOMAIN d : d[i][1] = k][2]

---------------------------------------------------------------------------
(* pandas *)

DataFrame(idx, cols, cell) ==
    [isNone |-> FALSE, index |-> idx, columns |-> cols, data |-> cell]

NoneDF ==
    [isNone |-> TRUE, index |-> <<>>, columns |-> <<>>,
     data |-> [p \in {} \X {} |-> NaN]]

IsNA(v) == v \in {None, NaN}

Less(a, b) ==
    (CHOOSE i \in DOMAIN Collation : Collation[i] = a)
      < (CHOOSE i \in DOMAIN Collation : Collation[i] = b)

\* pd.DataFrame.from_dict(d, orient="index", columns=[col])
from_dict(d, col) ==
    DataFrame(Keys(d), <<col>>,
              [p \in Range(Keys(d)) \X {col} |-> Get(d, p[1])])

sort_index_identity(df) == df

\* DataFrame.sort_index()
sort_index(df) ==
    DataFrame(SortSeq(df.index, Less), df.columns, df.data)

RECURSIVE union_indexes(_)
\* pandas.core.indexes.api.union_indexes(indexes, sort=False): the labels in
\* order of first appearance.
union_indexes(frames) ==
    IF frames = <<>> THEN <<>>
    ELSE LET prev == union_indexes(SubSeq(frames, 1, Len(frames) - 1))
             last == frames[Len(frames)].index
         IN  prev \o SelectSeq(last, LAMBDA n : n \notin Range(prev))

RECURSIVE all_columns(_)
all_columns(frames) ==
    IF frames = <<>> THEN <<>>
    ELSE all_columns(SubSeq(frames, 1, Len(frames) - 1))
           \o frames[Len(frames)].columns

concat_left_join(objs) ==
    LET frames == SelectSeq(objs, LAMBDA f : ~f.isNone)
        idx == frames[1].index
        cols == all_columns(frames)
        owner(c) == CHOOSE k \in DOMAIN frames : c \in Range(frames[k].columns)
    IN  DataFrame(idx, cols,
                  [p \in Range(idx) \X Range(cols) |->
                      IF p[1] \in Range(frames[owner(p[2])].index)
                      THEN frames[owner(p[2])].data[p]
                      ELSE NaN])

\* pd.concat(objs, axis=1): None entries are dropped, the rows are the union
\* of the indexes, a cell its frame has no row for is NaN.
concat(objs) ==
    LET frames == SelectSeq(objs, LAMBDA f : ~f.isNone)
        idx == union_indexes(frames)
        cols == all_columns(frames)
        owner(c) == CHOOSE k \in DOMAIN frames : c \in Range(frames[k].columns)
    IN  DataFrame(idx, cols,
                  [p \in Range(idx) \X Range(cols) |->
                      IF p[1] \in Range(frames[owner(p[2])].index)
                      THEN frames[owner(p[2])].data[p]
                      ELSE NaN])

fillna_nothing(df, value) == df

\* DataFrame.fillna(value)
fillna(df, value) ==
    DataFrame(df.index, df.columns,
              [p \in DOMAIN df.data |->
                  IF IsNA(df.data[p]) THEN value ELSE df.data[p]])

RECURSIVE Flatten(_)
Flatten(seqs) ==
    IF seqs = <<>> THEN <<>> ELSE Head(seqs) \o Flatten(Tail(seqs))

RECURSIVE SetToSeq(_)
SetToSeq(S) ==
    IF S = {} THEN <<>>
    ELSE LET x == CHOOSE y \in S : TRUE IN <<x>> \o SetToSeq(S \ {x})

\* df.groupby(by, group_keys=False).apply(lambda x: x.sort_index(),
\*                                        include_groups=False)
\* The groups are taken in sorted key order (rows with a missing key are
\* dropped), the grouping column is excluded from what the function gets,
\* and the pieces are concatenated; when no piece changed its index pandas
\* takes the call for a transform and restores the original row order.
groupby_apply_sort_index(df, by) ==
    LET kept == SelectSeq(df.index, LAMBDA n : ~IsNA(df.data[<<n, by>>]))
        keys == SortSeq(SetToSeq({df.data[<<n, by>>] : n \in Range(kept)}),
                        Less)
        cols == SelectSeq(df.columns, LAMBDA c : c # by)
        group(k) == DataFrame(
                        SelectSeq(kept, LAMBDA n : df.data[<<n, by>>] = k),
                        cols,
                        [p \in Range(kept) \X Range(cols) |-> df.data[p]])
        applied == [j \in DOMAIN keys |-> sort_index(group(keys[j]))]
        mutated == \E j \in DOMAIN keys :
                       applied[j].index # group(keys[j]).index
        idx == IF mutated
               THEN Flatten([j \in DOMAIN keys |-> applied[j].index])
               ELSE kept
    IN  DataFrame(idx, cols, [p \in Range(idx) \X Range(cols) |-> df.data[p]])

---------------------------------------------------------------------------
(* The inputs of a run *)

RequiredLists == {<<"A", "B">>, <<"B", "A">>, <<"A">>, <<"C">>}

\* Heroku config-vars objects (name -> value), in the order the API lists them
ConfigVarBodies ==
    { <<>>,
      <<<<"A", "x">>>>,
      <<<<"A", "x">>, <<"C", "y">>>>,
      <<<<"C", "y">>, <<"B", "x">>>>,
      <<<<"B", "y">>>> }

\* Heroku error objects
ErrorBodies ==
    { <<<<"id", "unauthorized">>, <<"message", "Invalid credentials provided.">>>>,
      <<<<"id", "forbidden">>, <<"message", "You do not have access to the app.">>>>,
      <<<<"message", "There were errors.">>>> }

HttpResponse(status, json, body) ==
    [kind |-> "http", status |-> status, json |-> json, body |-> body]

NetworkError ==
    [kind |-> "network_error", status |-> 0, json |-> FALSE, body |-> <<>>]

NoResponse ==
    [kind |-> "none", status |-> 0, json |-> FALSE, body |-> <<>>]

HerokuResponses ==
    {NetworkError}
      \cup {HttpResponse(s, FALSE, <<>>) : s \in {200, 500}}
      \cup {HttpResponse(200, TRUE, b) : b \in ConfigVarBodies}
      \cup {HttpResponse(s, TRUE, b) : s \in {401, 500}, b \in ErrorBodies}

\* CircleCI envvar records
CircleCIRecords ==
    { <<<<"name", "A">>, <<"created_at", "2024-01-01">>, <<"value", "xxxx1">>>>,
      <<<<"name", "C">>, <<"created_at", "2024-01-01">>, <<"value", None>>>>,
      <<<<"name", "B">>, <<"created_at", "2024-01-01">>>>,
      <<<<"name", "C">>, <<"created_at", "2024-01-01">>, <<"value", "xxxx1">>,
        <<"updated_at", "2024-01-02">>>> }

RECURSIVE ItemLists(_)
\* the lists of at most n records with distinct names
ItemLists(n) ==
    IF n = 0 THEN {<<>>}
    ELSE LET shorter == ItemLists(n - 1)
         IN  shorter \cup
             { Append(l, r) : l \in {x \in shorter : Len(x) = n - 1},
                              r \in CircleCIRecords }

DistinctNames(items) ==
    \A i, j \in DOMAIN items :
        i # j => Get(items[i], "name") # Get(items[j], "name")

\* The JSON object of a CircleCI answer: <<>> or <<"items", list>>
CircleCIBodies ==
    {<<>>} \cup { <<<<"items", l>>>> : l \in {x \in ItemLists(MaxItems) : DistinctNames(x)} }

CircleCIResponses ==
    {NetworkError}
      \cup {HttpResponse(s, FALSE, <<>>) : s \in {200, 404}}
      \cup {HttpResponse(200, TRUE, b) : b \in CircleCIBodies}

---------------------------------------------------------------------------
(* The functions of the module *)

Returned(df, msgs) == [raised |-> None, df |-> df, log |-> msgs]
Raised(exc, msgs) == [raised |-> exc, df |-> NoneDF, log |-> msgs]

\* get_local_env_vars(), lines 53-58
get_local_env_vars(required, env) ==
    LET env_vars_data == [i \in DOMAIN required |-> <<required[i], env[required[i]]>>]
    IN  sort_index(from_dict(env_vars_data, "local"))

\* get_heroku_env_vars(app_name), lines 61-102, on the answer `response`
get_heroku_env_vars(app_name, token, response) ==
    IF token = None THEN Raised("AssertionError", <<>>)
    ELSE IF response.kind = "network_error" THEN Raised("ConnectionError", <<>>)
    ELSE IF ~response.json THEN Raised("JSONDecodeError", <<>>)
    ELSE LET config_vars == response.body IN
         IF response.status = 200
         THEN Returned(from_dict(config_vars, app_name), <<>>)
         ELSE IF response.status = 401 /\ ~HasKey(config_vars, "id")
         THEN Raised("KeyError: 'id'", <<>>)
         ELSE IF response.status = 401 /\ Get(config_vars, "id") = "unauthorized"
         THEN IF HasKey(config_vars, "message")
              THEN Returned(NoneDF, << <<"error", app_name, "unauthorized">> >>)
              ELSE Raised("KeyError: 'message'", <<>>)
         ELSE Returned(NoneDF, << <<"error", app_name, "failed">> >>)
RECURSIVE frame_columns(_)
\* pd.DataFrame(list of dicts): the columns are the keys in order of first
\* appearance
frame_columns(records) ==
    IF records = <<>> THEN <<>>
    ELSE LET prev == frame_columns(SubSeq(records, 1, Len(records) - 1))
             last == Keys(records[Len(records)])
         IN  prev \o SelectSeq(last, LAMBDA k : k \notin Range(prev))

\* line 130: f'CIRCLECI_{col}'
Prefixed(col) ==
    CASE col = "created_at" -> "CIRCLECI_created_at"
      [] col = "value" -> "CIRCLECI_value"
      [] col = "updated_at" -> "CIRCLECI_updated_at"
      [] OTHER -> col

\* get_circleci_env_vars_keys_values_to_df, lines 123-134, on the answer
\* `response`
get_circleci_env_vars_keys_values_to_df(response) ==
    IF response.kind = "network_error" THEN Raised("ConnectionError", <<>>)
    ELSE IF response.status >= 400 THEN Raised("HTTPError", <<>>)
    ELSE IF ~response.json THEN Raised("JSONDecodeError", <<>>)
    ELSE LET payload_data == IF HasKey(response.body, "items")
                             THEN Get(response.body, "items") ELSE <<>>
             cols == frame_columns(payload_data)
             \* line 128: the cell of record i in column c after fillna
             cell(i, c) == IF HasKey(payload_data[i], c)
                              /\ ~IsNA(Get(payload_data[i], c))
                           THEN Get(payload_data[i], c) ELSE "not_set"
             idx == [i \in DOMAIN payload_data |-> cell(i, "name")]
             row(n) == CHOOSE i \in DOMAIN payload_data : idx[i] = n
             renamed == [j \in DOMAIN cols |-> Prefixed(cols[j])]
             wanted == <<"CIRCLECI_created_at", "CIRCLECI_value">>
         IN  IF "name" \notin Range(cols) THEN Raised("KeyError: 'name'", <<>>)
             ELSE IF ~(Range(wanted) \subseteq Range(renamed) \ {"name"})
             THEN Raised("KeyError: CIRCLECI columns", <<>>)
             ELSE Returned(
                    DataFrame(idx, wanted,
                        [p \in Range(idx) \X Range(wanted) |->
                            cell(row(p[1]),
                                 CHOOSE c \in Range(cols) : Prefixed(c) = p[2])]),
                    <<>>)

\* the exceptions that are requests.RequestException: ConnectionError and
\* HTTPError (raise_for_status), and the JSONDecodeError of response.json()
RequestExceptions == {"ConnectionError", "HTTPError", "JSONDecodeError"}

\* get_circleci_env_vars_keys, lines 105-119
get_circleci_env_vars_keys(response) ==
    LET r == get_circleci_env_vars_keys_values_to_df(response)
    IN  IF r.raised \in RequestExceptions
        THEN Returned(NoneDF, << <<"error", "circleci", r.raised>> >>)
        ELSE r

\* lines 149-150
df_required(required) ==
    DataFrame(required, <<"REQUIRED_ENV_VARS">>,
              [p \in Range(required) \X {"REQUIRED_ENV_VARS"} |-> "Yes"])

\* line 172
merge(frames) == fillna(concat(frames), "not_set")

---------------------------------------------------------------------------
(* One run of get_all_vars_into_matrix *)

Prefixes(s, n) == {SubSeq(s, 1, k) : k \in 0..n}

Init ==
    /\ pc = "start"
    /\ REQUIRED_ENV_VARS \in RequiredLists
    /\ environ \in [Range(REQUIRED_ENV_VARS) -> {"1", None}]
    /\ HEROKU_API_TOKEN \in {"token", None}
    /\ heroku_app_targets \in Prefixes(HEROKU_APPS, MaxApps)
    /\ all_dataframes = <<>>
    /\ app_i = 1
    /\ calls = <<>>
    /\ circleci_response = NoResponse
    /\ heroku_responses = <<>>
    /\ log = <<>>
    /\ exception = None
    /\ df_final = NoneDF
    /\ returned = NoneDF

\* lines 149-154: the required column and the local environment
ReadLocal ==
    /\ pc = "start"
    /\ all_dataframes' = <<df_required(REQUIRED_ENV_VARS),
                           get_local_env_vars(REQUIRED_ENV_VARS, environ)>>
    /\ calls' = Append(calls, "local")
    /\ pc' = "circleci"
    /\ UNCHANGED <<REQUIRED_ENV_VARS, environ, HEROKU_API_TOKEN,
                   heroku_app_targets, app_i, circleci_response,
                   heroku_responses, log, exception, df_final, returned>>

\* lines 156-157: the CircleCI request; its result is appended as it is
FetchCircleCI ==
    /\ pc = "circleci"
    /\ \E response \in CircleCIResponses :
          LET r == get_circleci_env_vars_keys(response)
          IN  /\ circleci_response' = response
              /\ calls' = Append(calls, "circleci")
              /\ log' = log \o r.log
              /\ IF r.raised # None
                 THEN /\ pc' = "raised"
                      /\ exception' = r.raised
                      /\ UNCHANGED all_dataframes
                 ELSE /\ pc' = "heroku"
                      /\ all_dataframes' = Append(all_dataframes, r.df)
                      /\ UNCHANGED exception
    /\ UNCHANGED <<REQUIRED_ENV_VARS, environ, HEROKU_API_TOKEN,
                   heroku_app_targets, app_i, heroku_responses, df_final,
                   returned>>

\* lines 160-171: one turn of the loop over heroku_app_targets
FetchHeroku ==
    /\ pc = "heroku"
    /\ app_i <= Len(heroku_app_targets)
    \* the assert of line 71 fails before anything is sent
    /\ \E response \in IF HEROKU_API_TOKEN = None THEN {NoResponse}
                       ELSE HerokuResponses :
          LET app_name == heroku_app_targets[app_i]
              r == get_heroku_env_vars(app_name, HEROKU_API_TOKEN, response)
              sent == HEROKU_API_TOKEN # None
          IN  /\ calls' = IF sent THEN Append(calls, app_name) ELSE calls
              /\ heroku_responses' = IF sent THEN Append(heroku_responses, response)
                                     ELSE heroku_responses
              /\ IF r.raised # None
                 THEN /\ pc' = "raised"
                      /\ exception' = r.raised
                      /\ UNCHANGED <<all_dataframes, app_i, log>>
                 ELSE /\ pc' = "heroku"
                      /\ app_i' = app_i + 1
                      /\ IF ~r.df.isNone
                         THEN /\ all_dataframes' = Append(all_dataframes, r.df)
                              /\ log' = log \o r.log
                         ELSE /\ log' = log \o r.log
                                          \o << <<"print", app_name, "ERROR">> >>
                              /\ UNCHANGED all_dataframes
                      /\ UNCHANGED exception
    /\ UNCHANGED <<REQUIRED_ENV_VARS, environ, HEROKU_API_TOKEN,
                   heroku_app_targets, circleci_response, df_final, returned>>

\* lines 172-173: merge, fill, group and sort, return
Merge ==
    /\ pc = "heroku"
    /\ app_i > Len(heroku_app_targets)
    /\ df_final' = merge(all_dataframes)
    /\ returned' = groupby_apply_sort_index(merge(all_dataframes),
                                            "REQUIRED_ENV_VARS")
    /\ pc' = "done"
    /\ UNCHANGED <<REQUIRED_ENV_VARS, environ, HEROKU_API_TOKEN,
                   heroku_app_targets, all_dataframes, app_i, calls,
                   circleci_response, heroku_responses, log, exception>>

Next == ReadLocal \/ FetchCircleCI \/ FetchHeroku \/ Merge

Spec == Init /\ [][Next]_vars

---------------------------------------------------------------------------
(* Vocabulary of the properties *)

Rows(df) == Range(df.index)
Cols(df) == Range(df.columns)
Cell(df, n, c) == df.data[<<n, c>>]
OneRowPerName(df) ==
    \A i, j \in DOMAIN df.index : i # j => df.index[i] # df.index[j]

\* the source tables that went into the merge
SourceTables == {f \in Range(all_dataframes) : ~f.isNone}

Failed(response) ==
    \/ response.kind = "network_error"
    \/ response.kind = "http" /\ (response.status # 200 \/ ~response.json)

CircleCIColumns == {"CIRCLECI_created_at", "CIRCLECI_value"}

\* column c of the returned table is absent or reads "not_set" in every row
AbsentOrNotSet(c) ==
    c \in Cols(returned) => \A n \in Rows(returned) : Cell(returned, n, c) = "not_set"

\* C1: a failing source (network error, non-200 answer, malformed body)
\* never aborts the run; the table returned covers the other sources, and
\* the failed source's columns are absent or "not_set" in every row.
C1_SourceFailureNeverAborts ==
    /\ pc = "raised" =>
          exception \notin {"ConnectionError", "JSONDecodeError", "HTTPError",
                            "KeyError: 'id'", "KeyError: 'message'"}
    /\ pc = "done" =>
          /\ "local" \in Cols(returned)
          /\ Failed(circleci_response) => \A c \in CircleCIColumns : AbsentOrNotSet(c)
          /\ \A i \in DOMAIN heroku_responses :
                IF Failed(heroku_responses[i])
                THEN AbsentOrNotSet(heroku_app_targets[i])
                ELSE heroku_app_targets[i] \in Cols(returned)

\* C2: every required name has exactly one row in the returned table, and
\* that row reads "Yes" in the REQUIRED_ENV_VARS column.
C2_RequiredRowsFlagged ==
    pc = "done" =>
       \A n \in Range(REQUIRED_ENV_VARS) :
          /\ Cardinality({i \in DOMAIN returned.index : returned.index[i] = n}) = 1
          /\ "REQUIRED_ENV_VARS" \in Cols(returned)
          /\ Cell(returned, n, "REQUIRED_ENV_VARS") = "Yes"

ScenarioApp == <<<<"A", "x">>, <<"C", "y">>>>

\* the inputs of the scenario, as far as the run has consumed them
ScenarioInputs ==
    /\ REQUIRED_ENV_VARS = <<"A", "B">>
    /\ environ = [n \in {"A", "B"} |-> IF n = "A" THEN "1" ELSE None]
    /\ HEROKU_API_TOKEN # None
    /\ Len(heroku_app_targets) = 1
    /\ circleci_response = HttpResponse(200, TRUE, <<<<"items", <<>>>>>>)
    /\ heroku_responses \in {<<>>, <<HttpResponse(200, TRUE, ScenarioApp)>>}

ScenarioRow(df, n, required, local, ci, app) ==
    /\ Cell(df, n, "REQUIRED_ENV_VARS") = required
    /\ Cell(df, n, "local") = local
    /\ \A c \in CircleCIColumns : c \in Cols(df) => Cell(df, n, c) = ci
    /\ Cell(df, n, heroku_app_targets[1]) = app

\* C4: with required [A, B], A=1 and B unset locally, a CircleCI answer
\* without items and one app answering {A: x, C: y}, the run completes and
\* returns the rows A (Yes, 1, not_set, x), B (Yes, not_set, not_set,
\* not_set) and C (not_set, not_set, not_set, y).
C4_EmptyItemsScenario ==
    ScenarioInputs =>
       /\ pc # "raised"
       /\ pc = "done" =>
             /\ Rows(returned) = {"A", "B", "C"}
             /\ OneRowPerName(returned)
             /\ {"REQUIRED_ENV_VARS", "local", heroku_app_targets[1]}
                   \subseteq Cols(returned)
             /\ ScenarioRow(returned, "A", "Yes", "1", "not_set", "x")
             /\ ScenarioRow(returned, "B", "Yes", "not_set", "not_set", "not_set")
             /\ ScenarioRow(returned, "C", "not_set", "not_set", "not_set", "y")

\* C5: without HEROKU_API_KEY the local and CircleCI steps proceed, no
\* error leaves get_all_vars_into_matrix, and the run returns a table with
\* the local and CircleCI columns.
C5_MissingCredentialNotFatal ==
    HEROKU_API_TOKEN = None /\ Len(all_dataframes) >= 3 =>
       /\ pc # "raised"
       /\ pc = "done" =>
             /\ "local" \in Cols(returned)
             /\ ~all_dataframes[3].isNone => CircleCIColumns \subseteq Cols(returned)

C7_FinalOrdering ==
    pc = "done" =>
       \A i, j \in DOMAIN returned.index :
          i < j =>
             LET a == returned.index[i]
                 b == returned.index[j]
                 req == Range(REQUIRED_ENV_VARS)
             IN  /\ b \in req => a \in req
                 /\ (a \in req <=> b \in req) => Less(a, b)

\* a returned table with both groups whose rows the final step reordered
C7_Witness ==
    /\ pc = "done"
    /\ returned.index # df_final.index
    /\ Cardinality(Rows(returned) \ Range(REQUIRED_ENV_VARS)) >= 2
    /\ Rows(returned) \cap Range(REQUIRED_ENV_VARS) # {}

\* C8: get_heroku_env_vars turns every HTTP answer into a returned value:
\* on 200 a one-column table named after the app with the keys of the
\* object as rows; on any other status (a 401 with or without an id, a body
\* that is not JSON) a diagnostic and the empty result.
C8_HerokuAnswerNeverRaises ==
    \A i \in DOMAIN heroku_responses :
       LET response == heroku_responses[i]
           app_name == heroku_app_targets[i]
           r == get_heroku_env_vars(app_name, HEROKU_API_TOKEN, response)
       IN  response.kind = "http" /\ (response.status # 200 \/ response.json) =>
              /\ r.raised = None
              /\ response.status = 200 =>
                    /\ ~r.df.isNone
                    /\ r.df.columns = <<app_name>>
                    /\ r.df.index = Keys(response.body)
              /\ response.status # 200 => r.df.isNone /\ r.log # <<>>

\* the records all carry name, created_at and value
CompleteRecords(items) ==
    \A i \in DOMAIN items :
       \A k \in {"name", "created_at", "value"} : HasKey(items[i], k)

\* C9: on a successful CircleCI answer, whatever the items list (empty
\* included), get_circleci_env_vars_keys returns a table indexed by the
\* records' names with exactly the columns CIRCLECI_created_at and
\* CIRCLECI_value, a missing value reading "not_set"; on a request failure
\* it returns the empty result.
C9_CircleCITable ==
    circleci_response.kind # "none" =>
       LET r == get_circleci_env_vars_keys(circleci_response)
           items == IF HasKey(circleci_response.body, "items")
                    THEN Get(circleci_response.body, "items") ELSE <<>>
       IN  IF Failed(circleci_response)
           THEN r.raised = None /\ r.df.isNone
           ELSE CompleteRecords(items) =>
                   /\ r.raised = None
                   /\ ~r.df.isNone
                   /\ r.df.index = [i \in DOMAIN items |-> Get(items[i], "name")]
                   /\ r.df.columns = <<"CIRCLECI_created_at", "CIRCLECI_value">>
                   /\ \A p \in DOMAIN r.df.data : ~IsNA(r.df.data[p])

\* C10: the source steps happen once each and in order (local, CircleCI,
\* then the apps in list order), and a failed fetch of one app does not stop
\* the requests for the apps after it.
C10_SequentialNoStop ==
    LET order == <<"local", "circleci">> \o heroku_app_targets
    IN  /\ Len(calls) <= Len(order)
        /\ calls = SubSeq(order, 1, Len(calls))
        /\ (/\ pc \in {"done", "raised"}
            /\ \E i \in DOMAIN heroku_responses : Failed(heroku_responses[i]))
              => Len(heroku_responses) = Len(heroku_app_targets)

====
